---------------------------- MODULE Spec2Model ----------------------------
(***************************************************************************)
(* WhatsThePlan event pipeline: signed ingestion (app/main.py ingest_data, *)
(* bar_agent.py send_payload), the Redis stream stream:incoming_txns with  *)
(* the consumer group workers_group, and the worker loop (worker/main.py). *)
(*                                                                         *)
(* Stream entry ids are the positions 1..Len(stream) of the entries in     *)
(* append order (Redis assigns strictly increasing ids at XADD).  0 stands *)
(* for "no entry" (Python None).                                           *)
(***************************************************************************)
EXTENDS Integers, Sequences, FiniteSets, TLC

\* ------------------------------------------------------------- bounds
\* At most this many entries are appended to the stream.
MaxEntries == 2
\* The wall clock (utcnow) advances up to this many half hours.
MaxTime == 2
\* SpecRedelivery hands one entry to process_message at most this often.
MaxAttempts == 5
\* SpecScore starts with at most this many rows in the transactions table.
MaxRows == 1
\* The window sums the monotonicity of the score is checked over.
MaxSum == 250

\* ------------------------------------------------- program constants
MAX_RETRIES == 3
\* datetime.timedelta(minutes=30), in units of half an hour
THIRTY_MINUTES == 1

\* The worker processes sharing the group (CONSUMER_NAME = worker_<host>).
Workers == {"w1", "w2"}

\* Venue ids seeded by init_db ("...0001", "...0002"), as str(UUID).
Venues == {"v1", "v2"}

\* Venue.capacity as seeded by init_db.
Capacity(v) == IF v = "v1" THEN 150 ELSE 200

\* venues.secret_key_hash as seeded by init_db: the literal shared secret.
DbSecret(v) == IF v = "v1" THEN "secret_joe" ELSE "secret_barney"

\* bar_agent.VENUES: the secret the agent signs with.
AgentSecret(v) == IF v = "v1" THEN "secret_joe" ELSE "secret_barney"

\* ----------------------------------------------------- request bodies
\* A body is the raw bytes of the request.  json = FALSE is a body that
\* json.loads rejects; otherwise the three fields hold the JSON text of
\* the field ("" when the field is absent).

\* uuid.UUID(text): "V1" is the upper-case spelling of venue v1's id, "v9"
\* a well-formed id that names no venue, "zz" no UUID at all.
ParseUUID(t) ==
    CASE t = "v1" -> "v1"
      [] t = "V1" -> "v1"
      [] t = "v2" -> "v2"
      [] t = "v9" -> "v9"
      [] OTHER    -> "invalid"

\* pydantic's datetime parser, in half hours: "T0"/"T2" are ISO texts,
\* "t0" the same instant written with a space separator.
ParseDatetime(t) ==
    CASE t = "T0" -> 0
      [] t = "t0" -> 0
      [] t = "T2" -> 2
      [] OTHER    -> -1

\* datetime.isoformat()
isoformat(d) == IF d = 0 THEN "T0" ELSE "T2"

\* datetime.datetime.fromisoformat(timestamp_str) in the worker
fromisoformat(t) == IF t = "T0" THEN 0 ELSE 2

\* pydantic's int parser on the JSON text of transaction_count.
IntTexts == {"-5", "90"}

ParseInt(t) == IF t = "-5" THEN -5 ELSE 90

\* The text redis-py stores for an integer field value of xadd.
str(n) == IF n = -5 THEN "-5" ELSE "90"

\* schemas.IngestionPayload(**json.loads(body)) succeeds
ValidPayload(b) ==
    /\ b.json
    /\ ParseUUID(b.venue_id) # "invalid"
    /\ ParseDatetime(b.timestamp) # -1
    /\ b.transaction_count \in IntTexts

\* The parsed IngestionPayload.
IngestionPayload(b) ==
    [venue_id          |-> ParseUUID(b.venue_id),
     timestamp         |-> ParseDatetime(b.timestamp),
     transaction_count |-> ParseInt(b.transaction_count)]

NotJson == [json |-> FALSE, venue_id |-> "", timestamp |-> "", transaction_count |-> ""]

JsonBody(v, t, c) == [json |-> TRUE, venue_id |-> v, timestamp |-> t, transaction_count |-> c]

\* ---------------------------------------------------------- signatures
\* HMAC-SHA256 is modelled as an ideal MAC: the tag determines key and
\* message.  hexdigest() gives the lower-case hex text of the tag.
hexdigest(key, body) == [form |-> "lower", key |-> key, body |-> body]

\* The same digits in upper case: a different header text.
UpperHex(sig) == [sig EXCEPT !.form = "upper"]

\* Header(None): no X-Signature header (or an empty one).
NoSignature == [form |-> "none", key |-> "", body |-> NotJson]

\* bar_agent.send_payload: the request it posts for (timestamp, venue, count).
send_payload(t, v, c) ==
    LET body == JsonBody(v, t, c)
    IN  [body |-> body, x_signature |-> hexdigest(AgentSecret(v), body)]

\* Mutant: the server keys the HMAC with a hash of the stored secret.
expected_signature_hashed(venue, body) ==
    hexdigest(IF venue = "v1" THEN "sha256(secret_joe)" ELSE "sha256(secret_barney)", body)

\* The signature check of ingest_data, lines 201-205.
expected_signature(venue, body) == hexdigest(DbSecret(venue), body)

compare_digest(a, b) == a = b


\* ------------------------------------------------------------- state
VARIABLES
    stream,         \* stream:incoming_txns: the appended entries, in order
    groupExists,    \* workers_group has been created
    lastDelivered,  \* the group's last-delivered id (its cursor)
    pending,        \* the group's pending entries list (ids)
    retry,          \* retry:{id} counters (0: the key does not exist)
    dlq,            \* the list stream:dlq, newest first (LPUSH)
    txns,           \* committed rows of the transactions table
    score,          \* venue:{id}:score (<<>>: the key does not exist)
    published,      \* messages published on updates:venue_scores, in order
    now,            \* datetime.utcnow(), in half hours
    pc,             \* each worker's position in main / process_message
    cur,            \* the entry id each worker is processing (0: none)
    local,          \* each worker's local variable score
    SHUTDOWN,       \* each worker process's SHUTDOWN flag
    deliveries,     \* history: <<worker, id>> for every call of process_message
    acks,           \* history: <<id, path>> for every XACK that removed an id
    failures,       \* history: how often the except clause ran for each id
    request,        \* the last request ingest_data handled
    response,       \* and the answer it got
    capacity,       \* venues.capacity of each venue
    scores,         \* the answer of the last GET /scores (<<>>: none yet)
    ws,             \* each /ws connection's position in websocket_endpoint
    client,         \* each subscriber's end of the transport
    inbox,          \* messages Redis delivered to a connection's subscription
    sent,           \* what websocket.send_text handed to each subscriber
    subAt,          \* history: how many messages had been published at SUBSCRIBE
    credential      \* history: the token each connection presented

streamVars == <<stream, groupExists, lastDelivered, pending, retry, dlq>>
storeVars  == <<txns, score, published>>
workerVars == <<pc, cur, local, SHUTDOWN, deliveries, acks, failures>>
ingestVars == <<request, response>>
relayVars  == <<ws, client, inbox, sent, subAt, credential>>
vars == <<stream, groupExists, lastDelivered, pending, retry, dlq, txns, score,
          published, now, pc, cur, local, SHUTDOWN, deliveries, acks,
          failures, request, response, capacity, scores, ws, client, inbox,
          sent, subAt, credential>>

Ids == 1..MaxEntries

\* The /ws connections (each subscriber connects once).
Conns == {"c1", "c2"}

\* The venues table as init_db seeds it.
SeededCapacity == [v \in Venues |-> Capacity(v)]

\* No /scores request and no /ws connection yet.
InitApi ==
    /\ scores = <<>>
    /\ ws = [c \in Conns |-> "idle"]
    /\ client = [c \in Conns |-> "none"]
    /\ inbox = [c \in Conns |-> <<>>]
    /\ sent = [c \in Conns |-> <<>>]
    /\ subAt = [c \in Conns |-> 0]
    /\ credential = [c \in Conns |-> "none"]

NoRequest == [body |-> NotJson, x_signature |-> NoSignature]

Init ==
    /\ stream = <<>>
    /\ groupExists = FALSE
    /\ lastDelivered = 0
    /\ pending = {}
    /\ retry = [i \in Ids |-> 0]
    /\ dlq = <<>>
    /\ txns = <<>>
    /\ score = [v \in Venues |-> <<>>]
    /\ published = <<>>
    /\ now = 1
    /\ pc = [w \in Workers |-> "start"]
    /\ cur = [w \in Workers |-> 0]
    /\ local = [w \in Workers |-> 0]
    /\ SHUTDOWN = [w \in Workers |-> FALSE]
    /\ deliveries = <<>>
    /\ acks = <<>>
    /\ failures = [i \in Ids |-> 0]
    /\ request = NoRequest
    /\ response = "none"
    /\ capacity = SeededCapacity
    /\ InitApi

\* ----------------------------------------------------------- ingest
\* The fields ingest_data puts on the stream (stream_data, lines 209-214).
stream_data(body) ==
    LET payload == IngestionPayload(body)
    IN  [venue_id          |-> payload.venue_id,
         timestamp         |-> isoformat(payload.timestamp),
         transaction_count |-> str(payload.transaction_count),
         raw_payload       |-> body]

\* Mutant: the body is validated before the header is looked at.
ingest_status_schema_first(req, xadd_ok) ==
    IF ~ValidPayload(req.body) THEN "400"
    ELSE IF req.x_signature = NoSignature THEN "401"
    ELSE IF IngestionPayload(req.body).venue_id \notin Venues THEN "404"
    ELSE IF ~compare_digest(expected_signature(IngestionPayload(req.body).venue_id, req.body),
                            req.x_signature) THEN "403"
    ELSE IF ~xadd_ok THEN "500"
    ELSE "queued"

\* The HTTP status ingest_data answers with; xadd_ok says whether XADD succeeds.
ingest_status(req, xadd_ok) ==
    IF req.x_signature = NoSignature THEN "401"
    ELSE IF ~ValidPayload(req.body) THEN "400"
    ELSE IF IngestionPayload(req.body).venue_id \notin Venues THEN "404"
    ELSE IF ~compare_digest(expected_signature(IngestionPayload(req.body).venue_id, req.body),
                            req.x_signature) THEN "403"
    ELSE IF ~xadd_ok THEN "500"
    ELSE "queued"

\* Mutant: the entry is appended before the signature is compared.
ingest_data_appends_unverified(req, xadd_ok) ==
    /\ Len(stream) < MaxEntries
    /\ request' = req
    /\ response' = ingest_status(req, xadd_ok)
    /\ stream' = IF response' \in {"queued", "403"} THEN Append(stream, stream_data(req.body))
                 ELSE stream
    /\ UNCHANGED <<groupExists, lastDelivered, pending, retry, dlq>>
    /\ UNCHANGED <<storeVars, now, workerVars>>
    /\ UNCHANGED <<capacity, scores, relayVars>>

\* POST /ingest
ingest_data(req, xadd_ok) ==
    /\ Len(stream) < MaxEntries
    /\ request' = req
    /\ response' = ingest_status(req, xadd_ok)
    /\ stream' = IF response' = "queued" THEN Append(stream, stream_data(req.body))
                 ELSE stream
    /\ UNCHANGED <<groupExists, lastDelivered, pending, retry, dlq>>
    /\ UNCHANGED <<storeVars, now, workerVars>>
    /\ UNCHANGED <<capacity, scores, relayVars>>

\* The requests the bar agent sends in the pipeline specification.
AgentRequests ==
    {send_payload("T0", "v1", "90"), send_payload("T2", "v1", "-5"),
     send_payload("T0", "v2", "90")}

\* Time passes.
Tick ==
    /\ now < MaxTime
    /\ now' = now + 1
    /\ UNCHANGED <<streamVars, storeVars, workerVars, ingestVars>>
    /\ UNCHANGED <<capacity, scores, relayVars>>


\* ----------------------------------------------------- score calculator
\* int(x / y) for y # 0: Python's int() truncates toward zero.
TruncDiv(x, y) ==
    LET ax == IF x < 0 THEN -x ELSE x
        ay == IF y < 0 THEN -y ELSE y
        q  == ax \div ay
    IN  IF (x < 0) = (y < 0) THEN q ELSE -q

RECURSIVE SumQuantity(_, _, _)
\* func.sum(Transaction.quantity) over the rows of venue v with
\* timestamp >= since, "or 0" when there is none.
SumQuantity(rows, v, since) ==
    IF rows = <<>> THEN 0
    ELSE LET r == Head(rows)
         IN  (IF r.venue_id = v /\ r.timestamp >= since THEN r.quantity ELSE 0)
             + SumQuantity(Tail(rows), v, since)

min(a, b) == IF a < b THEN a ELSE b

max(a, b) == IF a > b THEN a ELSE b

abs(x) == IF x < 0 THEN -x ELSE x

\* Python computes (x / y) * 100 in IEEE double arithmetic, and int() of the
\* product is the truncated exact quotient except where the product falls just
\* below an integer; then it is one closer to zero.  These are all such pairs
\* <<|x|, |y|>> with |x| <= 300 and |y| in {50, 75, 100, 150, 200} (the
\* capacities and the thresholds capacity * 0.5 of this model).
FloatShort ==
    {<<x, y>> : x \in {29, 57, 58, 113, 114, 115, 116, 201, 203, 205, 207, 226,
                       228, 230, 232, 251, 253, 255}, y \in {50, 100}}
    \cup {<<x, y>> : x \in {87, 171, 174}, y \in {75, 150}}
    \cup {<<x, 200>> : x \in {58, 114, 116, 226, 228, 230, 232}}

\* int((x / (y2 / 2)) * 100) as Python computes it, for y2 # 0: the divisor is
\* given doubled, so that capacity * 0.5 needs no fraction.
int_pct(x, y2) ==
    LET exact == TruncDiv(x * 200, y2)
    IN  IF y2 % 2 = 0 /\ <<abs(x), abs(y2) \div 2>> \in FloatShort
        THEN (IF exact < 0 THEN exact + 1 ELSE exact - 1)
        ELSE exact

\* Mutant: the score is not clamped at 100.
hotness_unclamped(total_txns, venue_capacity) ==
    IF venue_capacity = 0 THEN 0
    ELSE int_pct(total_txns, 2 * venue_capacity)

\* worker calculate_hotness, lines 62-66, from the window sum and the capacity:
\* int((total_txns / venue.capacity) * 100), at most 100.
hotness(total_txns, venue_capacity) ==
    IF venue_capacity = 0 THEN 0
    ELSE min(int_pct(total_txns, 2 * venue_capacity), 100)

\* worker calculate_hotness(db, venue_id) at the current time.
calculate_hotness(rows, venue_id, utcnow) ==
    IF venue_id \notin Venues THEN 0
    ELSE hotness(SumQuantity(rows, venue_id, utcnow - THIRTY_MINUTES), capacity[venue_id])

\* ------------------------------------------------------------ /scores
RECURSIVE MaxTimestamp(_)
\* SELECT MAX(timestamp) FROM transactions (-1: NULL, the table is empty)
MaxTimestamp(rows) ==
    IF rows = <<>> THEN -1
    ELSE max(Head(rows).timestamp, MaxTimestamp(Tail(rows)))

RECURSIVE SumWindow(_, _, _, _)
\* COALESCE(SUM(quantity), 0) over the rows of venue v with
\* since <= timestamp <= until
SumWindow(rows, v, since, until) ==
    IF rows = <<>> THEN 0
    ELSE LET r == Head(rows)
         IN  (IF r.venue_id = v /\ r.timestamp >= since /\ r.timestamp <= until
              THEN r.quantity ELSE 0)
             + SumWindow(Tail(rows), v, since, until)

\* get_scores, lines 371-375, from the window sum and the capacity:
\* threshold = capacity * 0.5, int((volume / threshold) * 100) clamped to [0,100].
scaled_hotness(volume, venue_capacity) ==
    IF venue_capacity <= 0 THEN 0
    ELSE min(100, max(0, int_pct(volume, venue_capacity)))

\* What GET /scores answers from the rows of the transactions table.
get_scores_response(rows) ==
    LET virtual_now == MaxTimestamp(rows)
    IN  IF virtual_now = -1
        THEN [v \in Venues |-> 0]
        ELSE [v \in Venues |->
                 scaled_hotness(SumWindow(rows, v, virtual_now - THIRTY_MINUTES, virtual_now),
                                capacity[v])]

\* GET /scores
get_scores ==
    /\ scores' = get_scores_response(txns)
    /\ UNCHANGED <<streamVars, storeVars, now, workerVars, ingestVars>>
    /\ UNCHANGED <<capacity, relayVars>>

\* -------------------------------------------------------------- /ws
\* websocket_endpoint, one instance per connection c.  ws[c] is its position:
\* "idle" (not connected yet), "rejected" (closed with 1008), "accepted"
\* (before pubsub.subscribe), "listening" (in the async for over
\* pubsub.listen()), "finally" (entering the finally clause), "closed"
\* (unsubscribed, Redis client closed), "error" (left by an exception that
\* skipped r.close()).

Tokens == {"none", "bad", "good"}

\* Mutant: any token that is present is taken as valid.
valid_token_unchecked(token) == token # "none"

\* "if not token" is false and auth.jwt.decode(token, ...) succeeds
valid_token(token) == token = "good"

\* Lines 396-409: a missing or invalid token closes the socket with 1008,
\* otherwise websocket.accept().
ws_connect(c, token) ==
    /\ ws[c] = "idle"
    /\ IF valid_token(token)
       THEN /\ ws' = [ws EXCEPT ![c] = "accepted"]
            /\ client' = [client EXCEPT ![c] = "open"]
       ELSE /\ ws' = [ws EXCEPT ![c] = "rejected"]
            /\ client' = [client EXCEPT ![c] = "closed"]
    /\ credential' = [credential EXCEPT ![c] = token]
    /\ UNCHANGED <<inbox, sent, subAt>>
    /\ UNCHANGED <<streamVars, storeVars, now, workerVars, ingestVars, capacity, scores>>

\* Mutant: a new subscription is handed everything published so far.
subscribe_replays_history == [i \in 1..Len(published) |-> i]

\* What Redis queues for a new subscription: pub/sub keeps no history.
subscribe_backlog == <<>>

\* Lines 411-413: r = aioredis.from_url(...), pubsub.subscribe(channel).  These
\* run before the try statement: if subscribe raises, the handler ends without
\* its finally clause.
ws_subscribe(c) ==
    /\ ws[c] = "accepted"
    /\ \E ok \in BOOLEAN :
         IF ok
         THEN /\ ws' = [ws EXCEPT ![c] = "listening"]
              /\ inbox' = [inbox EXCEPT ![c] = subscribe_backlog]
              /\ subAt' = [subAt EXCEPT ![c] = Len(published)]
              /\ UNCHANGED client
         ELSE /\ ws' = [ws EXCEPT ![c] = "error"]
              /\ client' = [client EXCEPT ![c] = IF @ = "open" THEN "closed" ELSE @]
              /\ UNCHANGED <<inbox, subAt>>
    /\ UNCHANGED <<sent, credential>>
    /\ UNCHANGED <<streamVars, storeVars, now, workerVars, ingestVars, capacity, scores>>

\* Mutant: the message stays at the head of the queue after it was yielded.
listen_keeps(q) == q

\* pubsub.listen() yields the oldest queued message and removes it.
listen_rest(q) == Tail(q)

\* Lines 416-419: the next message of type "message" is forwarded with
\* websocket.send_text(message["data"]).  The send raises when the subscriber
\* is gone or the transport fails; the exception leaves the loop.
ws_forward(c) ==
    /\ ws[c] = "listening"
    /\ inbox[c] # <<>>
    /\ \E ok \in BOOLEAN :
         IF ok /\ client[c] = "open"
         THEN /\ sent' = [sent EXCEPT ![c] =
                             Append(@, [seq  |-> Head(inbox[c]),
                                        data |-> published[Head(inbox[c])]])]
              /\ inbox' = [inbox EXCEPT ![c] = listen_rest(@)]
              /\ UNCHANGED <<ws, client>>
         ELSE /\ ws' = [ws EXCEPT ![c] = "finally"]
              /\ client' = [client EXCEPT ![c] = "gone"]
              /\ UNCHANGED <<sent, inbox>>
    /\ UNCHANGED <<subAt, credential>>
    /\ UNCHANGED <<streamVars, storeVars, now, workerVars, ingestVars, capacity, scores>>

\* pubsub.listen() raises (the Redis connection is lost): except Exception.
ws_listen_error(c) ==
    /\ ws[c] = "listening"
    /\ ws' = [ws EXCEPT ![c] = "finally"]
    /\ UNCHANGED <<client, inbox, sent, subAt, credential>>
    /\ UNCHANGED <<streamVars, storeVars, now, workerVars, ingestVars, capacity, scores>>

\* The subscriber closes its socket or its transport fails.  The handler never
\* calls websocket.receive(), so nothing in it observes this.
client_disconnect(c) ==
    /\ client[c] = "open"
    /\ client' = [client EXCEPT ![c] = "gone"]
    /\ UNCHANGED <<ws, inbox, sent, subAt, credential>>
    /\ UNCHANGED <<streamVars, storeVars, now, workerVars, ingestVars, capacity, scores>>

\* Lines 424-426: pubsub.unsubscribe(channel), r.close(); the handler returns
\* and the server closes the socket.  If unsubscribe raises, r.close() is skipped.
ws_finally(c) ==
    /\ ws[c] = "finally"
    /\ \E ok \in BOOLEAN :
         ws' = [ws EXCEPT ![c] = IF ok THEN "closed" ELSE "error"]
    /\ inbox' = [inbox EXCEPT ![c] = <<>>]
    /\ client' = [client EXCEPT ![c] = IF @ = "open" THEN "closed" ELSE @]
    /\ UNCHANGED <<sent, subAt, credential>>
    /\ UNCHANGED <<streamVars, storeVars, now, workerVars, ingestVars, capacity, scores>>

\* The steps of the handler of connection c.
websocket_endpoint(c) ==
    \/ \E token \in Tokens : ws_connect(c, token)
    \/ ws_subscribe(c)
    \/ ws_forward(c)
    \/ ws_finally(c)

\* ------------------------------------------------------------ worker
\* How often process_message was called for entry e.
Attempts(e) == Cardinality({i \in DOMAIN deliveries : deliveries[i][2] = e})

\* The entries some worker is processing right now.
InFlight == {cur[w] : w \in Workers} \ {0}

\* Mutant: the group is created at the end of the stream (id="$").
xgroup_create_at_end == Len(stream)

\* XGROUP CREATE ... id="0": the new group's cursor.
xgroup_create_id == 0

\* Mutant: creating the group again moves its cursor back to the given id.
xgroup_create_resets_cursor == xgroup_create_id

\* The group's cursor after XGROUP CREATE: Redis answers BUSYGROUP for a group
\* that exists and leaves it as it is.
xgroup_create_cursor == IF groupExists THEN lastDelivered ELSE xgroup_create_id

\* ensure_group(): XGROUP CREATE with mkstream; BUSYGROUP is swallowed, any
\* other error is raised again and ends the process.
ensure_group(w) ==
    /\ pc[w] = "start"
    /\ \E ok \in BOOLEAN :
         IF ok
         THEN /\ groupExists' = TRUE
              /\ lastDelivered' = xgroup_create_cursor
              /\ pc' = [pc EXCEPT ![w] = "loop"]
         ELSE /\ UNCHANGED <<groupExists, lastDelivered>>
              /\ pc' = [pc EXCEPT ![w] = "crashed"]
    /\ UNCHANGED <<stream, pending, retry, dlq, storeVars, now, ingestVars>>
    /\ UNCHANGED <<cur, local, SHUTDOWN, deliveries, acks, failures>>
    /\ UNCHANGED <<capacity, scores, relayVars>>

\* Mutant: the loop does not look at SHUTDOWN (while True).
main_loop_ignores_shutdown(w) ==
    /\ pc[w] = "loop"
    /\ pc' = [pc EXCEPT ![w] = "read"]
    /\ UNCHANGED <<streamVars, storeVars, now, ingestVars>>
    /\ UNCHANGED <<cur, local, SHUTDOWN, deliveries, acks, failures>>
    /\ UNCHANGED <<capacity, scores, relayVars>>

\* while not SHUTDOWN
main_loop(w) ==
    /\ pc[w] = "loop"
    /\ pc' = [pc EXCEPT ![w] = IF SHUTDOWN[w] THEN "done" ELSE "read"]
    /\ UNCHANGED <<streamVars, storeVars, now, ingestVars>>
    /\ UNCHANGED <<cur, local, SHUTDOWN, deliveries, acks, failures>>
    /\ UNCHANGED <<capacity, scores, relayVars>>

\* The pending entries whose consumer's process has ended.
Orphans == {e \in pending : \E w \in Workers : cur[w] = e /\ pc[w] = "crashed"}

\* Mutant: the read first takes over a pending entry of a dead consumer.
next_undelivered_or_orphan ==
    IF Orphans # {} THEN CHOOSE e \in Orphans : TRUE
    ELSE IF lastDelivered < Len(stream) THEN lastDelivered + 1 ELSE 0

\* The id XREADGROUP hands out for the special id ">": the first entry after
\* the group's cursor (0 when there is none).
next_undelivered == IF lastDelivered < Len(stream) THEN lastDelivered + 1 ELSE 0

\* Mutant: the read leaves the group's cursor where it was (a plain XREAD).
xreadgroup_claim_keeps_cursor(e) ==
    /\ lastDelivered' = lastDelivered
    /\ pending' = pending \cup {e}

\* What XREADGROUP ... ">" count=1 does to the group when it returns entry e.
xreadgroup_claim(e) ==
    /\ lastDelivered' = e
    /\ pending' = pending \cup {e}

\* Mutant: the read first asks for id "0", the pending entries delivered
\* before, and for ">" when there is none.
xreadgroup_pending(w) ==
    /\ pc[w] = "read"
    /\ groupExists
    /\ IF \E e \in pending \ InFlight : Attempts(e) < MaxAttempts
       THEN /\ \E e \in pending \ InFlight :
                 /\ Attempts(e) < MaxAttempts
                 /\ cur' = [cur EXCEPT ![w] = e]
                 /\ deliveries' = Append(deliveries, <<w, e>>)
            /\ pc' = [pc EXCEPT ![w] = "persist"]
            /\ UNCHANGED <<lastDelivered, pending>>
       ELSE IF next_undelivered = 0
       THEN /\ pc' = [pc EXCEPT ![w] = "loop"]
            /\ UNCHANGED <<lastDelivered, pending, cur, deliveries>>
       ELSE /\ xreadgroup_claim(next_undelivered)
            /\ cur' = [cur EXCEPT ![w] = next_undelivered]
            /\ deliveries' = Append(deliveries, <<w, next_undelivered>>)
            /\ pc' = [pc EXCEPT ![w] = "persist"]
    /\ UNCHANGED <<stream, groupExists, retry, dlq, storeVars, now, ingestVars>>
    /\ UNCHANGED <<local, SHUTDOWN, acks, failures>>
    /\ UNCHANGED <<capacity, scores, relayVars>>

\* xreadgroup(GROUP_NAME, CONSUMER_NAME, {STREAM_KEY: ">"}, count=1, block=2000)
\* and the call of process_message for the entry it returns.
xreadgroup(w) ==
    /\ pc[w] = "read"
    /\ groupExists
    /\ \E ok \in BOOLEAN :
         IF ~ok
         THEN \* the read raises: except Exception, time.sleep(5)
              /\ pc' = [pc EXCEPT ![w] = "sleep"]
              /\ UNCHANGED <<lastDelivered, pending, cur, deliveries>>
         ELSE IF next_undelivered = 0
         THEN \* the block times out: streams is empty
              /\ pc' = [pc EXCEPT ![w] = "loop"]
              /\ UNCHANGED <<lastDelivered, pending, cur, deliveries>>
         ELSE /\ xreadgroup_claim(next_undelivered)
              /\ cur' = [cur EXCEPT ![w] = next_undelivered]
              /\ deliveries' = Append(deliveries, <<w, next_undelivered>>)
              /\ pc' = [pc EXCEPT ![w] = "persist"]
    /\ UNCHANGED <<stream, groupExists, retry, dlq, storeVars, now, ingestVars>>
    /\ UNCHANGED <<local, SHUTDOWN, acks, failures>>
    /\ UNCHANGED <<capacity, scores, relayVars>>

\* time.sleep(5) in the loop's except clause
loop_sleep(w) ==
    /\ pc[w] = "sleep"
    /\ pc' = [pc EXCEPT ![w] = "loop"]
    /\ UNCHANGED <<streamVars, storeVars, now, ingestVars>>
    /\ UNCHANGED <<cur, local, SHUTDOWN, deliveries, acks, failures>>
    /\ UNCHANGED <<capacity, scores, relayVars>>

\* SIGTERM / SIGINT
signal_handler(w) ==
    /\ pc[w] \notin {"done", "crashed"}
    /\ ~SHUTDOWN[w]
    /\ SHUTDOWN' = [SHUTDOWN EXCEPT ![w] = TRUE]
    /\ UNCHANGED <<streamVars, storeVars, now, ingestVars>>
    /\ UNCHANGED <<pc, cur, local, deliveries, acks, failures>>
    /\ UNCHANGED <<capacity, scores, relayVars>>

\* redis_client.xack(STREAM_KEY, GROUP_NAME, id)
xack(e) == pending \ {e}

\* The worker process dies (kill -9, power loss) while it holds an entry: its
\* local state is gone, what it wrote to Redis and the database stays.
crash(w) ==
    /\ pc[w] \in {"persist", "calc", "set", "publish", "xack", "delete", "except"}
    /\ pc' = [pc EXCEPT ![w] = "crashed"]
    /\ UNCHANGED <<streamVars, storeVars, now, ingestVars>>
    /\ UNCHANGED <<cur, local, SHUTDOWN, deliveries, acks, failures>>
    /\ UNCHANGED <<capacity, scores, relayVars>>


\* ---------------------------------------------------- process_message
\* Each step is one statement that touches the database or Redis; ok = FALSE
\* is the statement raising, which enters the except clause.

\* The row process_message inserts for entry e (lines 80-94).
new_txn(e) ==
    [entry     |-> e,
     venue_id  |-> stream[e].venue_id,
     timestamp |-> fromisoformat(stream[e].timestamp),
     quantity  |-> ParseInt(stream[e].transaction_count)]

\* Mutant: the timestamp text is not parsed.
decodable_any_timestamp(m) ==
    /\ m.venue_id # ""
    /\ m.transaction_count \in IntTexts

\* Lines 80-94 raise nothing for the fields m of an entry: venue_id is there
\* (a NULL venue_id fails at commit), fromisoformat accepts the timestamp
\* ("": the field is missing, "bad": no ISO text) and int() accepts the count
\* ("": missing, "x": no integer).
Decodable(m) ==
    /\ m.venue_id # ""
    /\ m.timestamp \in {"T0", "T2"}
    /\ m.transaction_count \in IntTexts

\* 1. Persist: decode, db.add(new_txn), db.commit()
pm_persist(w) ==
    /\ pc[w] = "persist"
    /\ \E ok \in BOOLEAN :
         IF ok /\ Decodable(stream[cur[w]])
         THEN /\ txns' = Append(txns, new_txn(cur[w]))
              /\ pc' = [pc EXCEPT ![w] = "calc"]
         ELSE /\ UNCHANGED txns
              /\ pc' = [pc EXCEPT ![w] = "except"]
    /\ UNCHANGED <<streamVars, score, published, now, ingestVars>>
    /\ UNCHANGED <<cur, local, SHUTDOWN, deliveries, acks, failures>>
    /\ UNCHANGED <<capacity, scores, relayVars>>

\* 2. score = calculate_hotness(db, venue_id)
pm_calc(w) ==
    /\ pc[w] = "calc"
    /\ \E ok \in BOOLEAN :
         IF ok
         THEN /\ local' = [local EXCEPT ![w] =
                              calculate_hotness(txns, stream[cur[w]].venue_id, now)]
              /\ pc' = [pc EXCEPT ![w] = "set"]
         ELSE /\ UNCHANGED local
              /\ pc' = [pc EXCEPT ![w] = "except"]
    /\ UNCHANGED <<streamVars, storeVars, now, ingestVars>>
    /\ UNCHANGED <<cur, SHUTDOWN, deliveries, acks, failures>>
    /\ UNCHANGED <<capacity, scores, relayVars>>

\* 3. redis_client.set(f"venue:{venue_id}:score", score)
pm_set(w) ==
    /\ pc[w] = "set"
    /\ \E ok \in BOOLEAN :
         IF ok
         THEN /\ score' = [score EXCEPT ![stream[cur[w]].venue_id] = <<local[w]>>]
              /\ pc' = [pc EXCEPT ![w] = "publish"]
         ELSE /\ UNCHANGED score
              /\ pc' = [pc EXCEPT ![w] = "except"]
    /\ UNCHANGED <<streamVars, txns, published, now, ingestVars>>
    /\ UNCHANGED <<cur, local, SHUTDOWN, deliveries, acks, failures>>
    /\ UNCHANGED <<capacity, scores, relayVars>>

\* A connection's SUBSCRIBE to updates:venue_scores is in effect.
subscribed(c) == ws[c] = "listening"

\* 4. redis_client.publish("updates:venue_scores", pub_msg): Redis hands the
\* message (here: its position in the publish order) to every connection
\* subscribed at that moment and keeps no copy.
\* Mutant: the update is not published before the acknowledgement.
pm_publish_skipped(w) ==
    /\ pc[w] = "publish"
    /\ pc' = [pc EXCEPT ![w] = "xack"]
    /\ UNCHANGED <<streamVars, storeVars, now, ingestVars>>
    /\ UNCHANGED <<cur, local, SHUTDOWN, deliveries, acks, failures>>
    /\ UNCHANGED <<capacity, scores, relayVars>>

pm_publish(w) ==
    /\ pc[w] = "publish"
    /\ \E ok \in BOOLEAN :
         IF ok
         THEN /\ published' = Append(published,
                                 [venue_id |-> stream[cur[w]].venue_id, score |-> local[w]])
              /\ inbox' = [c \in Conns |-> IF subscribed(c)
                                            THEN Append(inbox[c], Len(published'))
                                            ELSE inbox[c]]
              /\ pc' = [pc EXCEPT ![w] = "xack"]
         ELSE /\ UNCHANGED <<published, inbox>>
              /\ pc' = [pc EXCEPT ![w] = "except"]
    /\ UNCHANGED <<streamVars, txns, score, now, ingestVars>>
    /\ UNCHANGED <<cur, local, SHUTDOWN, deliveries, acks, failures>>
    /\ UNCHANGED <<capacity, scores, ws, client, sent, subAt, credential>>

\* redis_client.xack(STREAM_KEY, GROUP_NAME, id), line 111
pm_xack(w) ==
    /\ pc[w] = "xack"
    /\ \E ok \in BOOLEAN :
         IF ok
         THEN /\ pending' = xack(cur[w])
              /\ acks' = IF cur[w] \in pending
                         THEN Append(acks, <<cur[w], "success">>) ELSE acks
              /\ pc' = [pc EXCEPT ![w] = "delete"]
         ELSE /\ UNCHANGED <<pending, acks>>
              /\ pc' = [pc EXCEPT ![w] = "except"]
    /\ UNCHANGED <<stream, groupExists, lastDelivered, retry, dlq>>
    /\ UNCHANGED <<storeVars, now, ingestVars, cur, local, SHUTDOWN, deliveries, failures>>
    /\ UNCHANGED <<capacity, scores, relayVars>>

\* redis_client.delete(f"retry:{id}"), line 114; then finally: db.close()
pm_delete(w) ==
    /\ pc[w] = "delete"
    /\ \E ok \in BOOLEAN :
         IF ok
         THEN /\ retry' = [retry EXCEPT ![cur[w]] = 0]
              /\ pc' = [pc EXCEPT ![w] = "loop"]
              /\ cur' = [cur EXCEPT ![w] = 0]
              /\ local' = [local EXCEPT ![w] = 0]
         ELSE /\ UNCHANGED <<retry, cur, local>>
              /\ pc' = [pc EXCEPT ![w] = "except"]
    /\ UNCHANGED <<stream, groupExists, lastDelivered, pending, dlq>>
    /\ UNCHANGED <<storeVars, now, ingestVars, SHUTDOWN, deliveries, acks, failures>>
    /\ UNCHANGED <<capacity, scores, relayVars>>

\* The record handle_poison_pill pushes (line 71); the error text is not modelled.
DeadLetterRecord(e) == [id |-> e, message |-> stream[e]]

\* Mutant: the first failure already quarantines.
exceeds_zero(retries) == retries > 0

\* retries > MAX_RETRIES, line 123
exceeds_max_retries(retries) == retries > MAX_RETRIES

\* The except clause (lines 116-129): db.rollback(), which undoes nothing that
\* was committed; retries = incr(retry_key); beyond MAX_RETRIES
\* handle_poison_pill (LPUSH to stream:dlq, XACK) and delete(retry_key).
\* fail names the first call of the clause that raises ("none": none does); an
\* exception here leaves process_message and reaches the loop's except clause.
pm_except(w) ==
    /\ pc[w] = "except"
    /\ LET e       == cur[w]
           retries == retry[e] + 1
           poison  == exceeds_max_retries(retries)
       IN  \E fail \in {"none", "incr", "lpush", "xack", "delete"} :
             /\ fail \in {"lpush", "xack", "delete"} => poison
             /\ retry' = [retry EXCEPT ![e] =
                            IF fail = "incr" THEN @
                            ELSE IF poison /\ fail = "none" THEN 0
                            ELSE retries]
             /\ dlq' = IF poison /\ fail \in {"none", "xack", "delete"}
                       THEN <<DeadLetterRecord(e)>> \o dlq ELSE dlq
             /\ pending' = IF poison /\ fail \in {"none", "delete"}
                           THEN xack(e) ELSE pending
             /\ acks' = IF poison /\ fail \in {"none", "delete"} /\ e \in pending
                        THEN Append(acks, <<e, "quarantine">>) ELSE acks
             /\ pc' = [pc EXCEPT ![w] = IF fail = "none" THEN "loop" ELSE "sleep"]
    /\ failures' = [failures EXCEPT ![cur[w]] = @ + 1]
    /\ cur' = [cur EXCEPT ![w] = 0]
    /\ local' = [local EXCEPT ![w] = 0]
    /\ UNCHANGED <<stream, groupExists, lastDelivered>>
    /\ UNCHANGED <<storeVars, now, ingestVars, SHUTDOWN, deliveries>>
    /\ UNCHANGED <<capacity, scores, relayVars>>

\* One step of worker w.
worker(w) ==
    \/ ensure_group(w)
    \/ main_loop(w)
    \/ xreadgroup(w)
    \/ loop_sleep(w)
    \/ pm_persist(w)
    \/ pm_calc(w)
    \/ pm_set(w)
    \/ pm_publish(w)
    \/ pm_xack(w)
    \/ pm_delete(w)
    \/ pm_except(w)

Next ==
    \/ \E req \in AgentRequests, xadd_ok \in BOOLEAN : ingest_data(req, xadd_ok)
    \/ Tick
    \/ \E w \in Workers : worker(w)

Spec == Init /\ [][Next]_vars

TypeOK ==
    /\ Len(stream) <= MaxEntries
    /\ lastDelivered \in 0..Len(stream)
    /\ pending \subseteq 1..Len(stream)
    /\ \A w \in Workers : cur[w] \in 0..Len(stream)


\* --------------------------------------------- further specifications
\* A single worker reading with the group, events arriving at any time.
NextSingle ==
    \/ \E req \in AgentRequests, xadd_ok \in BOOLEAN : ingest_data(req, xadd_ok)
    \/ worker("w1")

SpecSingle == Init /\ [][NextSingle]_vars

\* The requests of the ingestion specification: every body built from these
\* field texts, under every signature of SignaturesFor.
VenueTexts == {"v1", "V1", "v9", "zz"}
TimeTexts  == {"T0", "t0", "bad"}
CountTexts == {"90", "x"}

Bodies ==
    {NotJson} \cup {JsonBody(v, t, c) : v \in VenueTexts, t \in TimeTexts, c \in CountTexts}

\* Another body: the same request with another count.
OtherBody(b) ==
    [b EXCEPT !.transaction_count = IF @ = "90" THEN "-5" ELSE "90"]

Keys == {"secret_joe", "secret_barney"}

\* Header values tried with body b: none, the tag of b under each key (the
\* venue's own and another venue's), the same in upper case, and the tag of
\* another body.  (Header values are ASCII.)
SignaturesFor(b) ==
    {NoSignature}
    \cup {hexdigest(k, b) : k \in Keys}
    \cup {UpperHex(hexdigest(k, b)) : k \in Keys}
    \cup {hexdigest(k, OtherBody(b)) : k \in Keys}

Requests ==
    UNION {{[body |-> b, x_signature |-> s] : s \in SignaturesFor(b)} : b \in Bodies}

NextIngest == \E req \in Requests, xadd_ok \in BOOLEAN : ingest_data(req, xadd_ok)

SpecIngest == Init /\ [][NextIngest]_vars

\* The state after the agent's requests were accepted, before any worker starts.
LoadedStreams ==
    UNION {[1..n -> {stream_data(r.body) : r \in AgentRequests}] : n \in 1..MaxEntries}

InitLoaded ==
    /\ stream \in LoadedStreams
    /\ groupExists = FALSE
    /\ lastDelivered = 0
    /\ pending = {}
    /\ retry = [i \in Ids |-> 0]
    /\ dlq = <<>>
    /\ txns = <<>>
    /\ score = [v \in Venues |-> <<>>]
    /\ published = <<>>
    /\ now = 1
    /\ pc = [w \in Workers |-> "start"]
    /\ cur = [w \in Workers |-> 0]
    /\ local = [w \in Workers |-> 0]
    /\ SHUTDOWN = [w \in Workers |-> FALSE]
    /\ deliveries = <<>>
    /\ acks = <<>>
    /\ failures = [i \in Ids |-> 0]
    /\ request = NoRequest
    /\ response = "none"
    /\ capacity = SeededCapacity
    /\ InitApi

NextWorkers == \E w \in Workers : worker(w)

\* The workers keep running: each worker process takes its next step.
FairSpec == InitLoaded /\ [][NextWorkers]_vars /\ \A w \in Workers : WF_vars(worker(w))

\* The score calculator on any database: venue v1 has a capacity from
\* CapacityValues, the transactions table holds rows of earlier runs.
CapacityValues == {-100, 0, 100, 150}

Quantities == {25, 60}

PriorRow ==
    [entry : {0}, venue_id : Venues, timestamp : {1, 2}, quantity : Quantities]

PriorRows == UNION {[1..n -> PriorRow] : n \in 0..MaxRows}

InitScore ==
    /\ stream \in {st \in LoadedStreams : Len(st) = 1}
    /\ groupExists = FALSE
    /\ lastDelivered = 0
    /\ pending = {}
    /\ retry = [i \in Ids |-> 0]
    /\ dlq = <<>>
    /\ txns \in PriorRows
    /\ score = [v \in Venues |-> <<>>]
    /\ published = <<>>
    /\ now \in 1..MaxTime
    /\ pc = [w \in Workers |-> "start"]
    /\ cur = [w \in Workers |-> 0]
    /\ local = [w \in Workers |-> 0]
    /\ SHUTDOWN = [w \in Workers |-> FALSE]
    /\ deliveries = <<>>
    /\ acks = <<>>
    /\ failures = [i \in Ids |-> 0]
    /\ request = NoRequest
    /\ response = "none"
    /\ capacity \in {[SeededCapacity EXCEPT !["v1"] = c] : c \in CapacityValues}
    /\ InitApi

NextScore == worker("w1") \/ get_scores

\* One accepted entry, one worker and GET /scores, on any such database.
SpecScore == InitScore /\ [][NextScore]_vars

\* MaxEntries entries of one venue were accepted before the workers start.
InitBacklog ==
    /\ InitLoaded
    /\ stream = [i \in 1..MaxEntries |-> stream_data(send_payload("T0", "v1", "90").body)]

\* Entries as some other producer may have put them on the stream with XADD:
\* a field missing, a timestamp or a count that cannot be parsed.
WellFormedEntry == stream_data(send_payload("T0", "v1", "90").body)

MalformedEntries ==
    {[WellFormedEntry EXCEPT !.venue_id = ""],
     [WellFormedEntry EXCEPT !.timestamp = ""],
     [WellFormedEntry EXCEPT !.timestamp = "bad"],
     [WellFormedEntry EXCEPT !.transaction_count = ""],
     [WellFormedEntry EXCEPT !.transaction_count = "x"]}

InitMalformed ==
    /\ stream \in [1..MaxEntries -> {WellFormedEntry} \cup MalformedEntries]
    /\ groupExists = FALSE
    /\ lastDelivered = 0
    /\ pending = {}
    /\ retry = [i \in Ids |-> 0]
    /\ dlq = <<>>
    /\ txns = <<>>
    /\ score = [v \in Venues |-> <<>>]
    /\ published = <<>>
    /\ now = 1
    /\ pc = [w \in Workers |-> "start"]
    /\ cur = [w \in Workers |-> 0]
    /\ local = [w \in Workers |-> 0]
    /\ SHUTDOWN = [w \in Workers |-> FALSE]
    /\ deliveries = <<>>
    /\ acks = <<>>
    /\ failures = [i \in Ids |-> 0]
    /\ request = NoRequest
    /\ response = "none"
    /\ capacity = SeededCapacity
    /\ InitApi

NextMalformed == worker("w1")

\* One worker on a stream that holds well-formed and malformed entries.
SpecMalformed == InitMalformed /\ [][NextMalformed]_vars

\* One worker and a termination signal that arrives at any time.
NextShutdown == worker("w1") \/ signal_handler("w1")

SpecShutdown == InitBacklog /\ [][NextShutdown]_vars

\* The worker process keeps running: it takes its next step.
FairShutdown == InitBacklog /\ [][NextShutdown]_vars /\ WF_vars(worker("w1"))

\* A termination signal that arrives while the worker is processing an entry.
signal_in_flight(w) == cur[w] # 0 /\ signal_handler(w)

NextSignalInFlight == NextWorkers \/ \E w \in Workers : signal_in_flight(w)

\* Accepted entries, the workers, and signals that arrive during processing.
SpecSignalInFlight == InitBacklog /\ [][NextSignalInFlight]_vars

NextCrash == NextWorkers \/ \E w \in Workers : crash(w)

\* Accepted entries and workers that may die while processing.
SpecCrash == InitBacklog /\ [][NextCrash]_vars

\* The broadcast relay: accepted entries, one worker publishing scores, and
\* subscribers that connect and disconnect at any time.
NextRelay ==
    \/ worker("w1")
    \/ \E c \in Conns : websocket_endpoint(c)
    \/ \E c \in Conns : ws_listen_error(c)
    \/ \E c \in Conns : client_disconnect(c)

SpecRelay == InitBacklog /\ [][NextRelay]_vars

\* The worker and the handlers keep running; subscribers and Redis failures
\* come as they may.
FairRelay ==
    /\ InitBacklog
    /\ [][NextRelay]_vars
    /\ WF_vars(worker("w1"))
    /\ \A c \in Conns : WF_vars(websocket_endpoint(c))

\* The redelivery the worker's comment at lines 127-129 and spec section 4.3
\* step 5 count on: a pending entry that no worker is processing is handed to
\* process_message again.  No statement of the repository does this.
redeliver(w) ==
    /\ pc[w] = "read"
    /\ \E e \in pending \ InFlight :
         /\ Attempts(e) < MaxAttempts
         /\ cur' = [cur EXCEPT ![w] = e]
         /\ deliveries' = Append(deliveries, <<w, e>>)
         /\ pc' = [pc EXCEPT ![w] = "persist"]
    /\ UNCHANGED <<streamVars, storeVars, now, ingestVars>>
    /\ UNCHANGED <<local, SHUTDOWN, acks, failures>>
    /\ UNCHANGED <<capacity, scores, relayVars>>

NextRedelivery == worker("w1") \/ redeliver("w1")

InitOne == InitLoaded /\ Len(stream) = 1

\* One accepted entry, one worker, and the redelivery above.
SpecRedelivery == InitOne /\ [][NextRedelivery]_vars


\* -------------------------------------------------------------- claims
\* The acknowledgment paths recorded for entry e, in order.
AcksOf(e) == SelectSeq(acks, LAMBDA a : a[1] = e)

\* The DeadLetterRecords of entry e in stream:dlq.
DlqCount(e) == Cardinality({i \in DOMAIN dlq : dlq[i].id = e})

\* The committed Transaction rows that stem from entry e.
Persisted(e) == \E i \in DOMAIN txns : txns[i].entry = e

\* Some call of process_message for e returned without entering the except clause.
Succeeded(e) == e \notin InFlight /\ failures[e] < Attempts(e)

\* C1: an entry whose processing fails on every attempt is handed to
\* process_message exactly MAX_RETRIES + 1 times; then exactly one
\* DeadLetterRecord for it is in stream:dlq and it is never delivered again.
\* Stated for every entry that was handed out: unless some attempt succeeds, the
\* entry ends, for good, at MAX_RETRIES + 1 attempts and one DeadLetterRecord.
C1_AlwaysFailingQuarantined ==
    \A e \in Ids :
        [](Attempts(e) >= 1 =>
              \/ <>Succeeded(e)
              \/ <>[](Attempts(e) = MAX_RETRIES + 1 /\ DlqCount(e) = 1))

\* C2: once processing of one entry has failed three consecutive times, the
\* entry has been acknowledged exactly once, by the quarantine path, and it is
\* not delivered a fourth time.
C2_ThreeFailuresQuarantined ==
    \A e \in Ids :
        (failures[e] >= 3 /\ e \notin InFlight) =>
            /\ AcksOf(e) = <<(<<e, "quarantine">>)>>
            /\ Attempts(e) = 3

\* C3: an entry whose processing failed with a RetryCounter of at most
\* MAX_RETRIES is delivered again, so every pending entry eventually leaves
\* the pending set (by success or by quarantine) while the workers keep running.
C3_PendingEventuallyLeaves ==
    \A e \in Ids :
        /\ (e \in pending /\ e \notin InFlight /\ retry[e] \in 1..MAX_RETRIES)
               ~> (Attempts(e) >= 2)
        /\ (e \in pending) ~> (e \notin pending)

\* C4: when no entry is in flight, every entry with a persisted Transaction is
\* acknowledged (an unacknowledged entry has no persisted Transaction).
C4_PersistedIsAcked ==
    InFlight = {} => \A e \in 1..Len(stream) : Persisted(e) => AcksOf(e) # <<>>

\* C5: no stream entry is in flight at two workers at the same time.
C5_NoDoubleClaim ==
    \A w1, w2 \in Workers : (w1 # w2 /\ cur[w1] # 0) => cur[w1] # cur[w2]

\* Both workers are processing an entry at once.
C5_Witness == \A w \in Workers : cur[w] # 0


\* C6: a single worker reading with the group is handed the appended entries
\* in append order, each exactly once and none skipped, whether they were
\* appended before or after the group was created: its k-th call of
\* process_message is for the k-th entry, and a read comes back empty only
\* when every appended entry has been handed out.
C6_SingleWorkerInOrder ==
    /\ [](\A i \in DOMAIN deliveries : deliveries[i] = <<"w1", i>>)
    /\ [](Len(deliveries) <= Len(stream))
    /\ [][(pc["w1"] = "read" /\ pc["w1"]' = "loop") => Len(deliveries) = Len(stream)]_vars

\* Two entries were appended and both were handed to the worker.
C6_Witness == Len(stream) = 2 /\ Len(deliveries) = 2

\* C7: a rejected ingest request leaves the stream unchanged; the answer is
\* 'queued' only when exactly one entry with the request's venue_id, timestamp
\* and transaction_count was appended, and then the request's signature is the
\* one that verifies for that venue.
C7_RejectedLeavesStream ==
    [][IF response' = "queued"
       THEN /\ stream' = Append(stream,
                   [venue_id          |-> ParseUUID(request'.body.venue_id),
                    timestamp         |-> isoformat(ParseDatetime(request'.body.timestamp)),
                    transaction_count |-> str(ParseInt(request'.body.transaction_count)),
                    raw_payload       |-> request'.body])
            /\ request'.x_signature =
                   hexdigest(DbSecret(ParseUUID(request'.body.venue_id)), request'.body)
       ELSE stream' = stream]_<<stream, request, response>>

\* A request was rejected for its signature after another one had been queued.
C7_Witness == response = "403" /\ Len(stream) = 1

\* The last request had a well-formed body naming a known venue.
WellFormedKnown ==
    /\ response # "none"
    /\ ValidPayload(request.body)
    /\ ParseUUID(request.body.venue_id) \in Venues

\* The signature the bar agent computes for the last request's body with the
\* secret of the venue the body names.
AgentSignature ==
    hexdigest(AgentSecret(ParseUUID(request.body.venue_id)), request.body)

C10_ScoreInRange ==
    /\ \A v \in Venues : score[v] # <<>> => score[v][1] \in 0..100
    /\ \A i \in DOMAIN published : published[i].score \in 0..100

\* ------------------------------------------------ score calculator claims
\* Worker w has computed the score of its entry and not yet left process_message.
Scored(w) == pc[w] \in {"set", "publish", "xack", "delete"}

\* The venue of the entry worker w is processing.
VenueOf(w) == stream[cur[w]].venue_id

\* The window sum calculate_hotness reads for worker w's entry.
WindowSum(w) == SumQuantity(txns, VenueOf(w), now - THIRTY_MINUTES)

\* round(a / b) for a >= 0, b > 0 (Python rounds halves to the even neighbour).
RoundDiv(a, b) ==
    LET q == a \div b
        r == a % b
    IN  IF 2 * r > b \/ (2 * r = b /\ q % 2 = 1) THEN q + 1 ELSE q

\* clamp(0, 100, round(100 * S / (capacity * 0.5))), the formula of spec 4.4
SpecScoreOf(S, c) == max(0, min(100, RoundDiv(200 * S, c)))

\* C11: for a venue of capacity zero or less the score is 0: the one a worker
\* computes, stores and publishes, and the one GET /scores answers.
C11_NonPositiveCapacityZero ==
    \A v \in Venues : capacity[v] <= 0 =>
        /\ \A w \in Workers : (Scored(w) /\ VenueOf(w) = v) => local[w] = 0
        /\ score[v] # <<>> => score[v][1] = 0
        /\ \A i \in DOMAIN published : published[i].venue_id = v => published[i].score = 0
        /\ scores # <<>> => scores[v] = 0

\* C12: for capacity > 0 and a window sum S >= 0 the score the worker computes
\* and publishes is clamp(0, 100, round(100 * S / (capacity * 0.5))).
C12_WorkerScoreScaled ==
    \A w \in Workers :
        (Scored(w) /\ capacity[VenueOf(w)] > 0 /\ WindowSum(w) >= 0) =>
            /\ local[w] = SpecScoreOf(WindowSum(w), capacity[VenueOf(w)])
            /\ pc[w] = "xack" =>
                   published[Len(published)].score
                       = SpecScoreOf(WindowSum(w), capacity[VenueOf(w)])

\* C13: for a capacity > 0 both computations are non-decreasing in the window
\* sum over the sums 0..MaxSum and never exceed 100 (a property of the venues
\* table alone, evaluated once per database: before the worker starts); every
\* score a worker computes from a sum S >= 0 is the value of that
\* non-decreasing function at S, with S within 0..MaxSum, and is at most 100;
\* no score answered by /scores exceeds 100.
C13_ScoreMonotone ==
    \A v \in Venues : capacity[v] > 0 =>
        /\ (\A w \in Workers : pc[w] = "start") =>
              /\ \A S \in 0..(MaxSum - 1) :
                    /\ hotness(S, capacity[v]) <= hotness(S + 1, capacity[v])
                    /\ scaled_hotness(S, capacity[v]) <= scaled_hotness(S + 1, capacity[v])
              /\ \A S \in 0..MaxSum :
                    hotness(S, capacity[v]) <= 100 /\ scaled_hotness(S, capacity[v]) <= 100
        /\ \A w \in Workers :
              (Scored(w) /\ VenueOf(w) = v /\ WindowSum(w) >= 0) =>
                  /\ WindowSum(w) <= MaxSum
                  /\ local[w] = hotness(WindowSum(w), capacity[v])
                  /\ local[w] <= 100
        /\ scores # <<>> => scores[v] <= 100

\* A worker computed a score strictly between 0 and 100 from a positive sum,
\* and /scores answered a score of 100 for a venue.
C13_Witness ==
    /\ \E w \in Workers :
          /\ Scored(w) /\ capacity[VenueOf(w)] > 0 /\ WindowSum(w) > 0
          /\ local[w] \in 1..99
    /\ scores # <<>> /\ \E v \in Venues : capacity[v] > 0 /\ scores[v] = 100

\* The scores published for venue v, in publish order.
PublishedFor(v) == SelectSeq(published, LAMBDA m : m.venue_id = v)

\* The value at venue:{v}:score is also the last one published for v.
LastKnown(v) ==
    /\ score[v] # <<>>
    /\ PublishedFor(v) # <<>>
    /\ PublishedFor(v)[Len(PublishedFor(v))].score = score[v][1]

\* C20: GET /scores answers, for each venue, the last-known score: the value a
\* worker most recently stored at venue:{id}:score and published.  (Checked
\* on the seeded venues table.)
C20_ScoresAreLastKnown ==
    [][(scores' # scores /\ capacity = SeededCapacity) =>
          \A v \in Venues : LastKnown(v) => scores'[v] = score[v][1]]_vars

\* ------------------------------------------------------ relay claims
\* The publish positions of the messages forwarded to connection c, in order.
SentSeqs(c) == [i \in 1..Len(sent[c]) |-> sent[c][i].seq]

\* The publish positions since connection c subscribed, in publish order.
SinceSubscribed(c) == [k \in 1..(Len(published) - subAt[c]) |-> subAt[c] + k]

\* C14: a subscriber never receives a message that was published before its
\* connection subscribed: every forwarded message was published after it.
C14_NoHistory ==
    \A c \in Conns : \A i \in DOMAIN sent[c] : sent[c][i].seq > subAt[c]

\* A connection subscribed after the first message was published and was
\* forwarded the second one.
C14_Witness ==
    \E c \in Conns : subAt[c] = 1 /\ Len(sent[c]) = 1 /\ sent[c][1].seq = 2

\* C15: for every connection, what was forwarded is a prefix of the messages
\* published since it subscribed, each once, in publish order and with the
\* published payload; while the connection is subscribed the rest of them is
\* queued for it in publish order, so that none is skipped.
C15_ForwardedOnceInOrder ==
    \A c \in Conns :
        /\ \A i \in DOMAIN sent[c] :
              /\ sent[c][i].seq = subAt[c] + i
              /\ sent[c][i].seq \in DOMAIN published
              /\ sent[c][i].data = published[sent[c][i].seq]
        /\ subscribed(c) => SentSeqs(c) \o inbox[c] = SinceSubscribed(c)

\* Both connections are subscribed and were forwarded both published messages.
C15_Witness ==
    /\ Len(published) = 2
    /\ \A c \in Conns : subscribed(c) /\ client[c] = "open" /\ Len(sent[c]) = 2

\* C16: after a subscriber has disconnected, its handler eventually leaves the
\* listen loop, unsubscribes and closes its Redis client.
C16_DisconnectReleases ==
    \A c \in Conns :
        (client[c] = "gone" /\ ws[c] = "listening") ~> (ws[c] # "listening")

\* ------------------------------------------------ shutdown, group, crash
\* The entry of worker w's last call of process_message (0: none).
LastEntryOf(w) ==
    LET mine == {i \in DOMAIN deliveries : deliveries[i][1] = w}
    IN  IF mine = {} THEN 0
        ELSE deliveries[CHOOSE i \in mine : \A j \in mine : j <= i][2]

\* C17: when a termination signal arrives while an entry is in flight, the
\* worker has left its loop only with that entry acknowledged, by the success
\* path or by the quarantine path.
C17_ExitsAfterAckOrQuarantine ==
    \A w \in Workers :
        (pc[w] = "done" /\ LastEntryOf(w) # 0) =>
            /\ LastEntryOf(w) \notin pending
            /\ AcksOf(LastEntryOf(w)) # <<>>

\* C18: a call of ensure_group that finds workers_group existing leaves the
\* group's cursor and pending set as they are and hands out no entry again.
C18_EnsureGroupIdempotent ==
    [][\A w \in Workers :
          (groupExists /\ pc[w] = "start" /\ pc'[w] # "start") =>
              /\ groupExists'
              /\ lastDelivered' = lastDelivered
              /\ pending' = pending
              /\ deliveries' = deliveries]_vars

\* The second worker passed ensure_group after entries had been delivered, and
\* one of them is still pending.
C18_Witness ==
    /\ \A w \in Workers : pc[w] \notin {"start", "crashed"}
    /\ lastDelivered = 2
    /\ pending # {}
    /\ \E w \in Workers : \A i \in DOMAIN deliveries : deliveries[i][1] # w

\* C19: an entry held by a worker that crashed before acknowledging it stays
\* pending from then on: no step acknowledges it, hands it to process_message
\* again or takes it over.
C19_OrphanStaysPending ==
    [][\A w \in Workers :
          (pc[w] = "crashed" /\ cur[w] # 0 /\ cur[w] \in pending) =>
              /\ pc'[w] = "crashed"
              /\ cur'[w] = cur[w]
              /\ cur[w] \in pending'
              /\ \A i \in DOMAIN acks' : acks'[i][1] # cur[w]
              /\ \A i \in DOMAIN deliveries' : deliveries'[i][2] = cur[w] => i \in DOMAIN deliveries
              /\ \A u \in Workers \ {w} : cur'[u] # cur[w]]_vars

\* One worker crashed holding an entry; the other one went on, processed the
\* next entry and found nothing more to read.
C19_Witness ==
    \E w, u \in Workers :
        /\ pc[w] = "crashed" /\ cur[w] = 1 /\ 1 \in pending
        /\ pc[u] = "read" /\ cur[u] = 0 /\ AcksOf(2) # <<>>

\* C27: a /ws connection that presented no token or an invalid one is closed
\* without being accepted and is never subscribed: nothing is queued for it
\* and nothing is forwarded to it.
C27_NoTokenNoMessages ==
    \A c \in Conns :
        (ws[c] # "idle" /\ credential[c] # "good") =>
            /\ ws[c] = "rejected"
            /\ client[c] = "closed"
            /\ ~subscribed(c)
            /\ inbox[c] = <<>>
            /\ sent[c] = <<>>
            /\ subAt[c] = 0

\* A connection with an invalid token was turned away while the other one was
\* forwarded both published messages.
C27_Witness ==
    \E c, d \in Conns :
        /\ ws[c] = "rejected" /\ credential[c] = "bad"
        /\ credential[d] = "good" /\ Len(sent[d]) = 2

\* ------------------------------------------------ worker loop claims
\* C25: no error raised by the read, by process_message or inside its except
\* clause ends the worker: once in its loop the process never dies of an
\* error and leaves the loop only at the loop head after a signal; every such
\* error is followed by the bounded sleep before the loop goes on, and then,
\* as long as no signal came, by the next read.
C25_ErrorsBackOff ==
    /\ [][\A w \in Workers :
            /\ pc[w] \notin {"start", "crashed"} => pc'[w] # "crashed"
            /\ (pc[w] # "done" /\ pc'[w] = "done") => (SHUTDOWN[w] /\ pc[w] = "loop")
            /\ pc[w] = "except" => pc'[w] \in {"except", "sleep"}
            /\ pc[w] = "sleep" => pc'[w] \in {"sleep", "loop"}
            /\ (pc[w] = "loop" /\ ~SHUTDOWN[w]) => pc'[w] \in {"loop", "read"}]_vars
    /\ \A w \in Workers :
          (pc[w] \in {"except", "sleep"}) ~> (pc[w] = "read" \/ SHUTDOWN[w])

\* C26: once a signal has been received the worker leaves its loop: it starts
\* no further read from the loop head, it exits only at the loop head with no
\* entry in flight, every entry handed to it was handed to process_message
\* once, and when it has exited process_message has run to its end for each.
C26_ShutdownEventuallyExits ==
    /\ \A w \in Workers : SHUTDOWN[w] ~> (pc[w] \in {"done", "crashed"})
    /\ [][\A w \in Workers :
            /\ (SHUTDOWN[w] /\ pc[w] = "loop") => pc'[w] \in {"loop", "done"}
            /\ pc'[w] = "done" => (pc[w] \in {"loop", "done"} /\ cur'[w] = 0)]_vars
    /\ [](\A e \in Ids : Attempts(e) <= 1)
    /\ [](\A w \in Workers : pc[w] = "done" =>
             \A i \in DOMAIN deliveries :
                 deliveries[i][1] = w =>
                     /\ deliveries[i][2] \notin InFlight
                     /\ (Succeeded(deliveries[i][2]) \/ failures[deliveries[i][2]] = 1))

\* The worker exited after the signal having processed the first entry to its
\* acknowledgment; the second entry was never read.
C26_Witness ==
    /\ SHUTDOWN["w1"] /\ pc["w1"] = "done"
    /\ deliveries = <<(<<"w1", 1>>)>>
    /\ AcksOf(1) = <<(<<1, "success">>)>>

\* C24: an entry whose fields cannot be decoded takes the failure path: no
\* Transaction is persisted for it, nothing is published for it, it is not
\* acknowledged and stays pending, and the except clause, when it runs to its
\* end, increments its retry counter by one.
C24_UndecodableFails ==
    /\ [](\A e \in 1..Len(stream) : stream[e] \in MalformedEntries =>
             /\ ~Persisted(e)
             /\ AcksOf(e) = <<>>
             /\ Attempts(e) = 1 => e \in pending
             /\ (Attempts(e) = 1 /\ e \notin InFlight) => failures[e] = 1
             /\ retry[e] <= failures[e])
    /\ [](Len(published)
             <= Cardinality({e \in 1..Len(stream) : stream[e] = WellFormedEntry /\ Attempts(e) >= 1}))
    /\ [][\A w \in Workers :
            (cur[w] # 0 /\ stream[cur[w]] \in MalformedEntries) =>
                /\ (pc[w] = "persist" /\ pc'[w] # "persist") => pc'[w] = "except"
                /\ (pc[w] = "except" /\ pc'[w] = "loop") =>
                       retry'[cur[w]] = retry[cur[w]] + 1]_vars

\* The statement without the condition on the except clause: after the failed
\* attempt of a malformed entry its counter is 1.
C24_CounterAlwaysIncremented ==
    \A e \in 1..Len(stream) :
        (stream[e] \in MalformedEntries /\ Attempts(e) = 1 /\ e \notin InFlight) => retry[e] = 1

\* The first entry had a count that is no integer: it failed once, its counter
\* is 1 and it is pending, and the worker went on to the second entry.
C24_Witness ==
    /\ stream[1].transaction_count = "x"
    /\ retry[1] = 1 /\ 1 \in pending /\ failures[1] = 1
    /\ cur["w1"] = 2

\* The statement of process_message that follows each statement of the success
\* path (lines 89-114).
SuccessOrder ==
    [persist |-> "calc", calc |-> "set", set |-> "publish",
     publish |-> "xack", xack |-> "delete", delete |-> "loop"]

\* The entries acknowledged by the success path.
SuccessAcked == {e \in Ids : \E i \in DOMAIN acks : acks[i] = <<e, "success">>}

\* C21: on the success path the steps of an entry run in the order persist,
\* compute, store, publish, acknowledge, delete RetryCounter, each entry is
\* worked on by one worker in one attempt, and every entry acknowledged by the
\* success path has its Transaction persisted, a score stored for its venue and
\* an update published for it.
C21_SuccessPathOrdered ==
    /\ [][\A w \in Workers :
            pc[w] \in DOMAIN SuccessOrder =>
                /\ pc'[w] \in {pc[w], SuccessOrder[pc[w]], "except", "crashed"}
                /\ pc'[w] \notin {"loop", "crashed"} => cur'[w] = cur[w]]_vars
    /\ [](\A e \in Ids : Attempts(e) <= 1)
    /\ [](\A e \in SuccessAcked :
             /\ Persisted(e)
             /\ score[stream[e].venue_id] # <<>>
             /\ PublishedFor(stream[e].venue_id) # <<>>)
    /\ [](Len(published) >= Cardinality(SuccessAcked))
    /\ [](\A w \in Workers :
             /\ pc[w] \in {"calc", "set", "publish", "xack", "delete"} => Persisted(cur[w])
             /\ pc[w] \in {"persist", "calc", "set", "publish", "xack"} =>
                    cur[w] \notin SuccessAcked)

\* Both entries were acknowledged by the success path, by different workers.
C21_Witness ==
    /\ SuccessAcked = {1, 2}
    /\ deliveries = <<(<<"w1", 1>>), (<<"w2", 2>>)>>
    /\ InFlight = {}

\* C22: a RetryCounter exists only for an entry that had a failed attempt, it
\* counts the failed attempts of that entry, and an acknowledged entry that is
\* not in flight has no counter.
C22_CounterLifecycle ==
    \A e \in Ids :
        /\ retry[e] > 0 => failures[e] >= 1
        /\ retry[e] <= failures[e]
        /\ (e \notin InFlight /\ AcksOf(e) # <<>>) => retry[e] = 0

\* C23: a DeadLetterRecord exists only for an entry whose attempts failed more
\* than MAX_RETRIES times, and an entry acknowledged by the quarantine path
\* that is not in flight has exactly one DeadLetterRecord and is not pending.
C23_QuarantinedOnce ==
    \A e \in Ids :
        /\ DlqCount(e) >= 1 => failures[e] > MAX_RETRIES
        /\ (e \notin InFlight /\ \E i \in DOMAIN acks : acks[i] = <<e, "quarantine">>) =>
               /\ DlqCount(e) = 1
               /\ e \notin pending

\* The Transaction rows that process_message inserted for entry e.
RowsOf(e) == {i \in DOMAIN txns : txns[i].entry = e}

AllProcessed ==
    /\ SuccessAcked = 1..Len(stream)
    /\ InFlight = {}
    /\ \A e \in Ids : failures[e] = 0
    /\ \A w \in Workers : pc[w] # "crashed"

\* C29: when two workers have processed all entries of a venue without failure
\* and none is in flight, the score stored for the venue and the last message
\* published for it are calculate_hotness of the persisted transactions.
C29_NoStaleScore ==
    AllProcessed =>
        \A e \in 1..Len(stream) :
            LET v == stream[e].venue_id
            IN  /\ score[v] = <<calculate_hotness(txns, v, now)>>
                /\ PublishedFor(v) # <<>>
                /\ PublishedFor(v)[Len(PublishedFor(v))].score = calculate_hotness(txns, v, now)

=============================================================================
